---- MODULE Spec2Model ----
(***************************************************************************)
(* A model of the note data model and lifecycle of exo: BaseNote           *)
(* (pkg/note/note.go), PeriodicNote and DailyNote (pkg/periodic), the      *)
(* Zettel constructor and command (pkg/zettel, cmd), the first             *)
(* PeriodicNote and DailyNote (internal/note, internal/note/builtin), and  *)
(* the template manager's ProcessTemplate and ProcessTemplateWithContext,  *)
(* the configuration package (internal/config), the init command          *)
(* (cmd/init.go) and the installation of the default templates            *)
(* (pkg/templates).                                                        *)
(*                                                                         *)
(* The programs share the variables, one specification each: Spec is the   *)
(* notes of pkg/, SpecInternal the notes of internal/, SpecBase the base   *)
(* note, SpecTmpl and SpecRender the template manager, SpecInitCmd the     *)
(* configuration and the init command, SpecInstall the installers, and     *)
(* SpecSaving two processes that save to one path.                         *)
(***************************************************************************)
EXTENDS Integers, Sequences, FiniteSets, TLC

VARIABLES
    files,      \* the files on disk: a function from the existing paths to their content
    dirs,       \* the directories on disk
    note,       \* the note object the caller holds (NoNote: none)
    now,        \* the wall clock read by time.Now()
    ret,        \* what the last operation returned, and the filesystem calls it made
    calls,      \* ProcessTemplateWithContext: the calls made so far; the last is the current
    tpc,        \* ProcessTemplateWithContext: position of the caller
    ctxDone,    \* ProcessTemplateWithContext: the current call's ctx.Done() is closed
    tres,       \* ProcessTemplateWithContext: what the caller got back
    tname,      \* by call, the template name it was given
    ctxExpired, \* the current call was handed a context whose deadline had passed
    rpc,        \* by call, the position of its render goroutine
    rres,       \* by call, the value its render goroutine computed
    cache,      \* tm.templates: the names of the parsed templates
    instance,   \* internal/config: the package's instance ("nil" or "loaded")
    once,       \* internal/config: the package's sync.Once has run its function
    initOk,     \* some call of config.Initialize has returned nil
    wpc,        \* by process, its position in the os.WriteFile of its Save
    wfile       \* the file the processes save to: its bytes (none while it is absent or empty)

noteVars == <<files, dirs, note, now, ret>>
tmplVars == <<calls, tpc, ctxDone, tres, tname, ctxExpired, rpc, rres, cache>>
sysVars == <<instance, once, initOk, wpc, wfile>>
vars == <<files, dirs, note, now, ret, calls, tpc, ctxDone, tres, tname, ctxExpired, rpc, rres, cache,
          instance, once, initOk, wpc, wfile>>

----------------------------------------------------------------------------
(* Bounds *)

MaxDay == 1         \* daily notes are made for days 1..MaxDay of March 2025
MaxCalls == 2       \* calls of ProcessTemplateWithContext
MaxClock == 1       \* the wall clock runs over the instants 0..MaxClock
MaxBytes == 2       \* a process saves a content of 1..MaxBytes bytes

Days == 1..MaxDay
Calls == 1..MaxCalls

\* The CLI processes that save to one path at the same time.
Procs == {"p1", "p2"}

----------------------------------------------------------------------------
(* Values *)

DataHome == "/data"
Editor == "vim"

\* time.Time, as far as the notes read it: the calendar day.
Times == [day : Days]

Digit == <<"0", "1", "2", "3", "4", "5", "6", "7", "8", "9">>

TwoDigits(n) == Digit[(n \div 10) + 1] \o Digit[(n % 10) + 1]

\* time.Time{}, the zero time
ZeroTime == [day |-> 0 - 9999]

\* date.Format("2006-01-02") for the days around March 2025; day 0 is 28 February.
FormatDate(t) ==
    IF t = ZeroTime THEN "0001-01-01"
    ELSE IF t.day >= 1 THEN "2025-03-" \o TwoDigits(t.day)
    ELSE "2025-02-" \o TwoDigits(28 + t.day)

\* date.AddDate(0, 0, n)
AddDate(t, n) == [t EXCEPT !.day = @ + n]

\* fmt.Sprintf("%s.md", title)
MdName(title) == title \o ".md"

RECURSIVE JoinElems(_)
JoinElems(elems) ==
    IF elems = <<>> THEN ""
    ELSE LET rest == JoinElems(Tail(elems))
         IN  IF Head(elems) = "" THEN rest
             ELSE IF rest = "" THEN Head(elems)
             ELSE Head(elems) \o "/" \o rest

\* filepath.Join: empty elements are ignored, the rest joined with the separator.
Join(a, b, c) == JoinElems(<<a, b, c>>)

\* filepath.Dir of DataHome/subDir/fileName
DirOf(n) == Join(DataHome, n.subDir, "")

ZetTitles == {"Interesting Thought"}
UserContents == {"Updated"}

NoNote == [kind |-> "nil"]
NoErr == ""

\* What an operation hands back: the note after it, the disk after it, the error
\* (NoErr for nil), a returned value and the filesystem calls made, in order.
Result(n, f, d, err, val, ops) ==
    [note |-> n, files |-> f, dirs |-> d, err |-> err, val |-> val, ops |-> ops]

Put(f, path, content) ==
    [p \in DOMAIN f \cup {path} |-> IF p = path THEN content ELSE f[p]]

Remove(f, path) == [p \in DOMAIN f \ {path} |-> f[p]]

\* What can go wrong in one operation: the call that fails in it, if any. The code
\* returns at the first failure, so one fault an operation covers them all.
\* "partial" is a write that fails after the file was opened (and truncated).
SaveFaults == {"none", "mkdir", "write", "partial"}
LoadFaults == {"none", "read"}
DeleteFaults == {"none", "remove"}
RenderFaults == {"none", "render"}
OpenFaults == {"none", "editor"}

----------------------------------------------------------------------------
(* The storage backend, OSFileSystem *)

\* OSFileSystem.FileExists: os.Stat succeeds
FileExists(f, path) == path \in DOMAIN f

\* OSFileSystem.EnsureDirectoryExists: os.MkdirAll of the parent directory, which
\* has nothing to create when the directory is already there.
EnsureDirectoryExists(d, dir, fault) ==
    IF dir \in d THEN [dirs |-> d, ok |-> TRUE]
    ELSE IF fault # "mkdir" THEN [dirs |-> d \cup {dir}, ok |-> TRUE]
    ELSE [dirs |-> d, ok |-> FALSE]

\* A write that opens the file for appending instead of truncating it.
WriteFileAppends(f, path, content, fault) ==
    IF fault = "write" THEN [files |-> f, ok |-> FALSE]
    ELSE IF fault = "partial" THEN [files |-> Put(f, path, ""), ok |-> FALSE]
    ELSE [files |-> Put(f, path, (IF path \in DOMAIN f THEN f[path] ELSE "") \o content),
          ok |-> TRUE]

\* os.WriteFile: open with O_CREATE|O_TRUNC, then write. A failed open leaves the
\* disk as it was; a failed write leaves the file created or truncated.
WriteFile(f, path, content, fault) ==
    IF fault = "write" THEN [files |-> f, ok |-> FALSE]
    ELSE IF fault = "partial" THEN [files |-> Put(f, path, ""), ok |-> FALSE]
    ELSE [files |-> Put(f, path, content), ok |-> TRUE]

----------------------------------------------------------------------------
(* The template renderer, as the notes see it *)

\* TemplateManager.ProcessTemplate: the rendered text is a function of the
\* template's name and the data.
Render(name, data) == name \o "(" \o data \o ")"

----------------------------------------------------------------------------
(* BaseNote, pkg/note/note.go *)

WithSubDirOpt(subDir) == [opt |-> "WithSubDir", arg |-> subDir]
WithFileNameOpt(fileName) == [opt |-> "WithFileName", arg |-> fileName]
WithTemplateNameOpt(name) == [opt |-> "WithTemplateName", arg |-> name]
WithContentOpt(content) == [opt |-> "WithContent", arg |-> content]

\* One functional option applied to the note under construction.
ApplyOption(n, o) ==
    IF o.opt = "WithSubDir" THEN
        IF o.arg = "" THEN [note |-> n, err |-> "subdirectory cannot be empty"]
        ELSE [note |-> [n EXCEPT !.subDir = o.arg], err |-> NoErr]
    ELSE IF o.opt = "WithFileName" THEN
        IF o.arg = "" THEN [note |-> n, err |-> "filename cannot be empty"]
        ELSE [note |-> [n EXCEPT !.fileName = o.arg], err |-> NoErr]
    ELSE IF o.opt = "WithTemplateName" THEN
        IF o.arg = "" THEN [note |-> n, err |-> "template name cannot be empty"]
        ELSE [note |-> [n EXCEPT !.templateName = o.arg], err |-> NoErr]
    ELSE [note |-> [n EXCEPT !.content = o.arg], err |-> NoErr]

RECURSIVE ApplyOptions(_, _)
ApplyOptions(n, opts) ==
    IF opts = <<>> THEN [note |-> n, err |-> NoErr]
    ELSE LET r == ApplyOption(n, Head(opts))
         IN  IF r.err # NoErr THEN r ELSE ApplyOptions(r.note, Tail(opts))

\* BaseNote.updatePath
updatePath(n) == [n EXCEPT !.path = Join(DataHome, n.subDir, n.fileName)]

\* A NewBaseNote that builds the path from whatever the options left.
NewBaseNoteUnchecked(title, opts, t) ==
    LET n0 == [kind |-> "base", title |-> title, content |-> "", path |-> "",
               fileName |-> "", subDir |-> "", templateName |-> "",
               created |-> t, modified |-> t,
               periodType |-> "", date |-> [day |-> 0], navigator |-> "nil"]
        r == ApplyOptions(n0, opts)
    IN  IF r.err # NoErr
        THEN [note |-> NoNote, err |-> "failed to apply option: " \o r.err]
        ELSE [note |-> updatePath(r.note), err |-> NoErr]

\* NewBaseNote, called at time t.
NewBaseNote(title, opts, t) ==
    IF title = "" THEN [note |-> NoNote, err |-> "title cannot be empty"]
    ELSE LET n0 == [kind |-> "base", title |-> title, content |-> "", path |-> "",
                    fileName |-> "", subDir |-> "", templateName |-> "",
                    created |-> t, modified |-> t,
                    periodType |-> "", date |-> [day |-> 0], navigator |-> "nil"]
             r == ApplyOptions(n0, opts)
         IN  IF r.err # NoErr
             THEN [note |-> NoNote, err |-> "failed to apply option: " \o r.err]
             ELSE IF r.note.subDir = "" \/ r.note.fileName = ""
             THEN [note |-> NoNote, err |-> "subdirectory and filename must be provided"]
             ELSE [note |-> updatePath(r.note), err |-> NoErr]

\* A SetContent that stamps both timestamps.
SetContentStampsCreated(n, content, t) ==
    [n EXCEPT !.content = content, !.modified = t, !.created = t]

\* BaseNote.SetContent
SetContent(n, content, t) == [n EXCEPT !.content = content, !.modified = t]

\* BaseNote.Save
BaseSave(n, f, d, fault) ==
    IF n.path = "" THEN Result(n, f, d, "note path not set", "", <<>>)
    ELSE LET e == EnsureDirectoryExists(d, DirOf(n), fault)
         IN  IF ~e.ok
             THEN Result(n, f, d, "mkdir failed", "", <<"FS.EnsureDirectoryExists">>)
             ELSE LET w == WriteFile(f, n.path, n.content, fault)
                  IN  Result(n, w.files, e.dirs,
                             IF w.ok THEN NoErr ELSE "failed to write file", "",
                             <<"FS.EnsureDirectoryExists", "os.WriteFile">>)

\* A Load that reads the file and forgets what it read.
BaseLoadForgets(n, f, d, fault) ==
    IF n.path = "" THEN Result(n, f, d, "note path not set", "", <<>>)
    ELSE IF ~ (n.path \in DOMAIN f) \/ fault = "read"
    THEN Result(n, f, d, "failed to read file", "", <<"os.ReadFile">>)
    ELSE Result(n, f, d, NoErr, "", <<"os.ReadFile">>)

\* BaseNote.Load
BaseLoad(n, f, d, fault) ==
    IF n.path = "" THEN Result(n, f, d, "note path not set", "", <<>>)
    ELSE IF ~ (n.path \in DOMAIN f) \/ fault = "read"
    THEN Result(n, f, d, "failed to read file", "", <<"os.ReadFile">>)
    ELSE Result([n EXCEPT !.content = f[n.path]], f, d, NoErr, "", <<"os.ReadFile">>)

\* BaseNote.Delete: os.Remove's error is returned whatever it is.
BaseDelete(n, f, d, fault) ==
    IF n.path = "" THEN Result(n, f, d, "note path not set", "", <<>>)
    ELSE IF ~ (n.path \in DOMAIN f) \/ fault = "remove"
    THEN Result(n, f, d, "failed to delete file", "", <<"os.Remove">>)
    ELSE Result(n, Remove(f, n.path), d, NoErr, "", <<"os.Remove">>)

\* BaseNote.Exists
Exists(n, f) == FileExists(f, n.path)

\* BaseNote.Validate
BaseValidate(n) ==
    IF n.title = "" THEN "title is required"
    ELSE IF n.path = "" THEN "path is required"
    ELSE NoErr

\* An ApplyTemplate that renders and drops the rendered text.
ApplyTemplateDropsText(n, data, fault, t) ==
    IF n.templateName = "" THEN [note |-> n, err |-> "no template name set"]
    ELSE IF fault = "render" THEN [note |-> n, err |-> "failed to process template"]
    ELSE [note |-> n, err |-> NoErr]

\* An ApplyTemplate that stores what a failed render handed back, the empty text.
ApplyTemplateStoresFailure(n, data, fault, t) ==
    IF n.templateName = "" THEN [note |-> n, err |-> "no template name set"]
    ELSE IF fault = "render"
    THEN [note |-> SetContent(n, "", t), err |-> "failed to process template"]
    ELSE [note |-> SetContent(n, Render(n.templateName, data), t), err |-> NoErr]

\* BaseNote.ApplyTemplate
ApplyTemplate(n, data, fault, t) ==
    IF n.templateName = "" THEN [note |-> n, err |-> "no template name set"]
    ELSE IF fault = "render" THEN [note |-> n, err |-> "failed to process template"]
    ELSE [note |-> SetContent(n, Render(n.templateName, data), t), err |-> NoErr]

\* BaseNote.Open
BaseOpen(n, f, d, fault) ==
    IF n.path = "" THEN Result(n, f, d, "note path not set", "", <<>>)
    ELSE IF ~Exists(n, f)
    THEN Result(n, f, d, "note file does not exist", "", <<"FS.FileExists">>)
    ELSE IF Editor = "" THEN Result(n, f, d, "editor cannot be empty", "",
                                    <<"FS.FileExists", "FS.OpenInEditor">>)
    ELSE Result(n, f, d, IF fault = "editor" THEN "exit status 1" ELSE NoErr, "",
                <<"FS.FileExists", "FS.OpenInEditor">>)

\* BaseNoteFactory.CreateNote
CreateNote(title, opts, t) ==
    LET r == NewBaseNote(title, opts, t)
    IN  IF r.err # NoErr
        THEN [note |-> NoNote, err |-> "failed to create base note: " \o r.err]
        ELSE r

\* The titles and the option lists the callers of the base constructor pass: each
\* of the four options given or left out.
BaseTitles == {"Test Note", ""}
BaseOptions ==
    {s \o f \o t \o c :
        s \in {<<>>, <<WithSubDirOpt("notes")>>},
        f \in {<<>>, <<WithFileNameOpt("test.md")>>},
        t \in {<<>>, <<WithTemplateNameOpt("default")>>},
        c \in {<<>>, <<WithContentOpt("Initial Content")>>}}

----------------------------------------------------------------------------
(* PeriodicNote and DailyNavigator, pkg/periodic *)

\* A Previous that hands the date back as it came.
DailyPreviousSameDay(date) == date

DailyPrevious(date) == AddDate(date, 0 - 1)
DailyNext(date) == AddDate(date, 1)
DailyStart(date) == date
DailyEnd(date) == date

\* pkg/periodic.NewPeriodicNote: no navigator is asked for, and none is set.
NewPeriodicNote(title, date, opts, t) ==
    LET r == NewBaseNote(title,
                 <<WithSubDirOpt("periodic"), WithFileNameOpt(MdName(title))>> \o opts, t)
    IN  IF r.err # NoErr
        THEN [note |-> NoNote, err |-> "failed to create base note: " \o r.err]
        ELSE [note |-> [r.note EXCEPT !.kind = "periodic", !.date = date,
                                      !.periodType = "daily"],
              err |-> NoErr]

\* PeriodicNote.SetNavigator
SetNavigator(n, nav) == [n EXCEPT !.navigator = nav]

\* Navigation that calls the navigator without looking whether one is set.
NavigateUnchecked(n, which) ==
    [val |-> CASE which = "Previous" -> DailyPrevious(n.date)
               [] which = "Next" -> DailyNext(n.date)
               [] which = "Start" -> DailyStart(n.date)
               [] OTHER -> DailyEnd(n.date),
     err |-> NoErr]

\* PeriodicNote.Previous / Next / Start / End
Navigate(n, which) ==
    IF n.navigator = "nil" THEN [val |-> ZeroTime, err |-> "navigator is not set"]
    ELSE [val |-> CASE which = "Previous" -> DailyPrevious(n.date)
                    [] which = "Next" -> DailyNext(n.date)
                    [] which = "Start" -> DailyStart(n.date)
                    [] OTHER -> DailyEnd(n.date),
          err |-> NoErr]

\* A Validate that stops at the embedded BaseNote's checks.
PeriodicValidateBaseOnly(n) == BaseValidate(n)

\* pkg/periodic PeriodicNote.Validate
PeriodicValidate(n) ==
    IF BaseValidate(n) # NoErr THEN BaseValidate(n)
    ELSE IF n.navigator = "nil" THEN "period navigator is required"
    ELSE IF n.periodType = "" THEN "period type is required"
    ELSE NoErr

\* DailyNote.PreviousOrZero / NextOrZero
OrZero(n, which) == IF Navigate(n, which).err # NoErr THEN ZeroTime ELSE Navigate(n, which).val

\* The template data NewDailyNote builds: Date, Previous and Next.
DailyData(n) ==
    n.title \o "," \o FormatDate(OrZero(n, "Previous")) \o "," \o FormatDate(OrZero(n, "Next"))

\* An initialisation that hands the half-built note back together with the error.
InitOrLoadKeepsNote(daily, f, d, t, fault) ==
    IF ~Exists(daily, f)
    THEN LET a == ApplyTemplate(daily, DailyData(daily), fault, t)
             s == BaseSave(a.note, f, d, fault)
         IN  IF a.err # NoErr
             THEN Result(a.note, f, d, "failed to apply template: " \o a.err,
                         "", <<"FS.FileExists", "TM.ProcessTemplate">>)
             ELSE Result(s.note, s.files, s.dirs,
                         IF s.err # NoErr THEN "failed to save daily note: " \o s.err
                         ELSE NoErr, "", <<"FS.FileExists", "TM.ProcessTemplate">> \o s.ops)
    ELSE LET l == BaseLoad(daily, f, d, fault)
         IN  Result(l.note, f, d,
                    IF l.err # NoErr THEN "failed to load existing daily note: " \o l.err
                    ELSE NoErr, "", <<"FS.FileExists">> \o l.ops)

\* NewDailyNote, from the existence check on: a note whose file is absent gets the
\* template applied and is saved, a note whose file is there is loaded.
InitOrLoad(daily, f, d, t, fault) ==
    IF ~Exists(daily, f)
    THEN LET a == ApplyTemplate(daily, DailyData(daily), fault, t)
             s == BaseSave(a.note, f, d, fault)
         IN  IF a.err # NoErr
             THEN Result(NoNote, f, d, "failed to apply template: " \o a.err,
                         "", <<"FS.FileExists", "TM.ProcessTemplate">>)
             ELSE IF s.err # NoErr
             THEN Result(NoNote, s.files, s.dirs,
                         "failed to save daily note: " \o s.err, "",
                         <<"FS.FileExists", "TM.ProcessTemplate">> \o s.ops)
             ELSE Result(s.note, s.files, s.dirs, NoErr, "",
                         <<"FS.FileExists", "TM.ProcessTemplate">> \o s.ops)
    ELSE LET l == BaseLoad(daily, f, d, fault)
         IN  IF l.err # NoErr
             THEN Result(NoNote, f, d,
                         "failed to load existing daily note: " \o l.err, "",
                         <<"FS.FileExists">> \o l.ops)
             ELSE Result(l.note, f, d, NoErr, "", <<"FS.FileExists">> \o l.ops)

\* pkg/periodic.NewDailyNote
NewDailyNote(date, f, d, t, fault) ==
    LET title == FormatDate(date)
        p == NewPeriodicNote(title, date,
                 <<WithSubDirOpt("day"), WithFileNameOpt(MdName(title)),
                   WithTemplateNameOpt("day")>>, t)
    IN  IF p.err # NoErr
        THEN Result(NoNote, f, d, "failed to create periodic note: " \o p.err, "", <<>>)
        ELSE InitOrLoad([SetNavigator(p.note, "daily") EXCEPT !.kind = "daily"],
                        f, d, t, fault)

----------------------------------------------------------------------------
(* ZettelNote and the zet command, pkg/zettel and cmd *)

\* pkg/zettel.NewZettelNote: the defaults, then the caller's options; the disk is
\* not looked at.
NewZettelNote(title, opts, t) ==
    LET r == NewBaseNote(title,
                 <<WithSubDirOpt("0-inbox"), WithFileNameOpt(MdName(title)),
                   WithTemplateNameOpt("zet")>> \o opts, t)
    IN  IF r.err # NoErr
        THEN [note |-> NoNote, err |-> "failed to create base note: " \o r.err]
        ELSE [note |-> [r.note EXCEPT !.kind = "zettel"], err |-> NoErr]

\* ZettelNote.Save: logs, then BaseNote.Save
ZettelSave(n, f, d, fault) == BaseSave(n, f, d, fault)

\* The zet command's RunE: construct, Save, Open.
ZetRunE(title, f, d, t, fault) ==
    LET z == NewZettelNote(title, <<>>, t)
        s == ZettelSave(z.note, f, d, fault)
        o == BaseOpen(s.note, s.files, s.dirs, fault)
    IN  IF z.err # NoErr
        THEN Result(NoNote, f, d, "failed to create zettel note: " \o z.err, "", <<>>)
        ELSE IF s.err # NoErr
        THEN Result(NoNote, s.files, s.dirs, "failed to save zettel note: " \o s.err, "",
                    s.ops)
        ELSE IF o.err # NoErr
        THEN Result(NoNote, o.files, o.dirs, "failed to open zettel note: " \o o.err, "",
                    s.ops \o o.ops)
        ELSE Result(NoNote, o.files, o.dirs, NoErr, "", s.ops \o o.ops)

----------------------------------------------------------------------------
(* The logger the constructors are handed *)

\* A logger that works, no logger (a nil interface value), and a logger whose sink
\* fails.
Loggers == {"supplied", "nil", "failing"}

NilPanic == "panic: invalid memory address or nil pointer dereference"

\* One call of a method of the logger. The methods return nothing: what goes wrong
\* in the sink stays there. A method called on the nil interface panics.
Log(l) == IF l = "nil" THEN NilPanic ELSE NoErr

\* pkg/periodic.NewDailyNote handed logger l. It logs before it initialises a note
\* whose file is absent, and after each step that failed.
NewDailyNoteWith(l, date, f, d, t, fault) ==
    LET r == NewDailyNote(date, f, d, t, fault)
        path == Join(DataHome, "day", MdName(FormatDate(date)))
    IN  IF ~FileExists(f, path) /\ Log(l) # NoErr
        THEN Result(NoNote, f, d, Log(l), "", <<"FS.FileExists">>)
        ELSE IF r.err # NoErr /\ Log(l) # NoErr
        THEN Result(NoNote, r.files, r.dirs, Log(l), "", r.ops)
        ELSE r

\* ZettelNote.Save of a note made with logger l: z.Logger.Infof, then BaseNote.Save
ZettelSaveWith(l, n, f, d, fault) ==
    IF Log(l) # NoErr THEN Result(n, f, d, Log(l), "", <<>>)
    ELSE ZettelSave(n, f, d, fault)

\* ZettelNote.UpdateContent of a note made with logger l: SetContent, then
\* z.Logger.Infof
UpdateContentWith(l, n, content, t) ==
    [note |-> SetContent(n, content, t), err |-> Log(l)]

----------------------------------------------------------------------------
(* The first PeriodicNote and DailyNote, internal/note and internal/note/builtin *)

\* cfg.PeriodicDir
PeriodicSubDir == "periodic"

\* internal/note NewBaseNote: any title is taken.
InternalNewBaseNote(title, t) ==
    [kind |-> "internalPeriodic", title |-> title, content |-> "",
     path |-> "", fileName |-> "", subDir |-> "", templateName |-> "",
     created |-> t, modified |-> t,
     periodType |-> "", date |-> [day |-> 0], navigator |-> "nil"]

\* internal/note NewPeriodicNote(title, pType, date, nav, tm)
InternalNewPeriodicNote(title, pType, date, nav, t) ==
    [InternalNewBaseNote(title, t) EXCEPT !.periodType = pType, !.date = date,
                                          !.navigator = nav]

\* The title setter of the embedded BaseNote, which PeriodicNote shadows.
InternalBaseSetTitle(n, title, t) ==
    IF title = "" THEN [note |-> n, err |-> "title cannot be empty"]
    ELSE [note |-> [n EXCEPT !.title = title, !.modified = t], err |-> NoErr]

\* internal/note PeriodicNote.SetTitle
PeriodicSetTitle(n, title, t) ==
    [note |-> n, err |-> "cannot change title of periodic note"]

\* builtin DailyNote.SetTitle
DailySetTitle(n, title, t) ==
    [note |-> n, err |-> "cannot change title of daily note"]

\* utils.DeleteFile: a file that is not there is no error
UtilsDeleteFile(f, path, fault) ==
    IF ~ (path \in DOMAIN f) THEN [files |-> f, ok |-> TRUE]
    ELSE IF fault = "remove" THEN [files |-> f, ok |-> FALSE]
    ELSE [files |-> Remove(f, path), ok |-> TRUE]

\* builtin.NewDailyNote: the template is applied when the file is absent (and
\* nothing is saved), the file is loaded when it is there.
BuiltinNewDailyNote(date, f, d, t, fault) ==
    LET title == FormatDate(date)
        p == InternalNewPeriodicNote(title, "daily", date, "daily", t)
        n == [p EXCEPT !.kind = "internalDaily", !.templateName = "day",
                       !.subDir = PeriodicSubDir \o "/day", !.fileName = MdName(title),
                       !.path = Join(DataHome, PeriodicSubDir \o "/day", MdName(title))]
    IN  IF ~FileExists(f, n.path)
        THEN LET a == ApplyTemplate(n, DailyData(n), fault, t)
             IN  IF a.err # NoErr
                 THEN Result(NoNote, f, d, "failed to apply template: " \o a.err, "",
                             <<"utils.FileExists">>)
                 ELSE Result(a.note, f, d, NoErr, "", <<"utils.FileExists">>)
        ELSE IF fault = "read"
        THEN Result(NoNote, f, d, "failed to load existing note: failed to read file", "",
                    <<"utils.FileExists", "utils.ReadFile">>)
        ELSE Result([n EXCEPT !.content = f[n.path]], f, d, NoErr, "",
                    <<"utils.FileExists", "utils.ReadFile">>)

\* internal/note BaseNote.Save: utils.EnsureDirectoryExists, then utils.WriteFile
InternalSave(n, f, d, fault) ==
    IF n.path = "" THEN Result(n, f, d, "note path not set", "", <<>>)
    ELSE LET e == EnsureDirectoryExists(d, DirOf(n), fault)
         IN  IF ~e.ok
             THEN Result(n, f, d, "failed to create directories", "",
                         <<"utils.EnsureDirectoryExists">>)
             ELSE LET w == WriteFile(f, n.path, n.content, fault)
                  IN  Result(n, w.files, e.dirs,
                             IF w.ok THEN NoErr ELSE "failed to write file", "",
                             <<"utils.EnsureDirectoryExists", "utils.WriteFile">>)

\* internal/note BaseNote.Load
InternalLoad(n, f, d, fault) ==
    IF n.path = "" THEN Result(n, f, d, "note path not set", "", <<>>)
    ELSE IF ~ (n.path \in DOMAIN f) \/ fault = "read"
    THEN Result(n, f, d, "failed to read file", "", <<"utils.ReadFile">>)
    ELSE Result([n EXCEPT !.content = f[n.path]], f, d, NoErr, "", <<"utils.ReadFile">>)

\* internal/note BaseNote.Delete
InternalDelete(n, f, d, fault) ==
    IF n.path = "" THEN Result(n, f, d, "note path not set", "", <<>>)
    ELSE LET r == UtilsDeleteFile(f, n.path, fault)
         IN  Result(n, r.files, d, IF r.ok THEN NoErr ELSE "failed to delete file", "",
                    <<"utils.DeleteFile">>)

----------------------------------------------------------------------------
(* Method dispatch: which implementation a note of each kind runs *)

PkgKinds == {"zettel", "periodic", "daily"}
NoteKinds == PkgKinds \cup {"base"}
PeriodicKinds == {"periodic", "daily"}
InternalKinds == {"internalPeriodic", "internalDaily"}

\* pkg/periodic declares no Save or Load: a PeriodicNote runs the embedded BaseNote's.
Save(n, f, d, fault) ==
    CASE n.kind = "zettel" -> ZettelSave(n, f, d, fault)
      [] n.kind \in InternalKinds -> InternalSave(n, f, d, fault)
      [] OTHER -> BaseSave(n, f, d, fault)

Load(n, f, d, fault) ==
    CASE n.kind \in InternalKinds -> InternalLoad(n, f, d, fault)
      [] OTHER -> BaseLoad(n, f, d, fault)

Delete(n, f, d, fault) ==
    CASE n.kind \in InternalKinds -> InternalDelete(n, f, d, fault)
      [] OTHER -> BaseDelete(n, f, d, fault)

Validate(n) ==
    CASE n.kind \in PeriodicKinds -> PeriodicValidate(n)
      [] OTHER -> BaseValidate(n)

SetTitle(n, title, t) ==
    CASE n.kind = "internalDaily" -> DailySetTitle(n, title, t)
      [] OTHER -> PeriodicSetTitle(n, title, t)

----------------------------------------------------------------------------
(* The operations a caller runs on notes, one action each *)

Held == note # NoNote

NavOps == {"Previous", "Next", "Start", "End"}

Returned(op, r) == ret' = [op |-> op, err |-> r.err, val |-> r.val, ops |-> r.ops]

NewDailyNoteOp ==
    \E date \in Times, fault \in RenderFaults \cup SaveFaults \cup LoadFaults :
        LET r == NewDailyNote(date, files, dirs, now, fault)
        IN  /\ note' = r.note
            /\ files' = r.files
            /\ dirs' = r.dirs
            /\ Returned("NewDailyNote", r)
            /\ UNCHANGED <<now, tmplVars, sysVars>>

\* A caller of NewPeriodicNote that places the note where the daily notes are.
NewPeriodicNoteOp ==
    \E date \in Times :
        LET r == NewPeriodicNote(FormatDate(date), date,
                     <<WithSubDirOpt("day"), WithFileNameOpt(MdName(FormatDate(date))),
                       WithTemplateNameOpt("day")>>, now)
        IN  /\ note' = r.note
            /\ Returned("NewPeriodicNote", Result(r.note, files, dirs, r.err, "", <<>>))
            /\ UNCHANGED <<files, dirs, now, tmplVars, sysVars>>

SetNavigatorOp ==
    \E nav \in {"nil", "daily"} :
        /\ Held /\ note.kind \in PeriodicKinds \cup InternalKinds
        /\ note' = SetNavigator(note, nav)
        /\ Returned("SetNavigator", Result(note, files, dirs, NoErr, "", <<>>))
        /\ UNCHANGED <<files, dirs, now, tmplVars, sysVars>>

NavigateOp ==
    \E which \in NavOps :
        /\ Held /\ note.kind \in PeriodicKinds
        /\ LET r == Navigate(note, which)
           IN  Returned(which, Result(note, files, dirs, r.err, FormatDate(r.val), <<>>))
        /\ UNCHANGED <<files, dirs, note, now, tmplVars, sysVars>>

NewZettelNoteOp ==
    \E title \in ZetTitles \cup {""},
       opts \in {<<>>, <<WithTemplateNameOpt("")>>} \cup
                {<<WithContentOpt(c)>> : c \in UserContents} :
        LET r == NewZettelNote(title, opts, now)
        IN  /\ note' = r.note
            /\ Returned("NewZettelNote", Result(r.note, files, dirs, r.err, "", <<>>))
            /\ UNCHANGED <<files, dirs, now, tmplVars, sysVars>>

ZetCmd ==
    \E title \in ZetTitles, fault \in SaveFaults \cup OpenFaults :
        LET r == ZetRunE(title, files, dirs, now, fault)
        IN  /\ files' = r.files
            /\ dirs' = r.dirs
            /\ Returned("zet", r)
            /\ UNCHANGED <<note, now, tmplVars, sysVars>>

InternalNewPeriodicNoteOp ==
    \E date \in Times, nav \in {"nil", "daily"} :
        /\ note' = InternalNewPeriodicNote(FormatDate(date), "daily", date, nav, now)
        /\ Returned("internal.NewPeriodicNote",
                    Result(NoNote, files, dirs, NoErr, "", <<>>))
        /\ UNCHANGED <<files, dirs, now, tmplVars, sysVars>>

BuiltinNewDailyNoteOp ==
    \E date \in Times, fault \in RenderFaults \cup LoadFaults :
        LET r == BuiltinNewDailyNote(date, files, dirs, now, fault)
        IN  /\ note' = r.note
            /\ Returned("builtin.NewDailyNote", r)
            /\ UNCHANGED <<files, dirs, now, tmplVars, sysVars>>

SetTitleOp ==
    \E title \in ZetTitles \cup {""} :
        /\ Held /\ note.kind \in InternalKinds
        /\ LET r == SetTitle(note, title, now)
           IN  /\ note' = r.note
               /\ Returned("SetTitle", Result(r.note, files, dirs, r.err, "", <<>>))
        /\ UNCHANGED <<files, dirs, now, tmplVars, sysVars>>

SetContentOp ==
    \E c \in UserContents \cup {""} :
        /\ Held
        /\ note' = SetContent(note, c, now)
        /\ Returned("SetContent", Result(NoNote, files, dirs, NoErr, "", <<>>))
        /\ UNCHANGED <<files, dirs, now, tmplVars, sysVars>>

\* A caller that renders a zettel's or a base note's template with the title as data.
ApplyTemplateOp ==
    \E fault \in RenderFaults :
        /\ Held /\ note.kind \in {"zettel", "base"}
        /\ LET r == ApplyTemplate(note, note.title, fault, now)
           IN  /\ note' = r.note
               /\ Returned("ApplyTemplate", Result(r.note, files, dirs, r.err, "", <<>>))
        /\ UNCHANGED <<files, dirs, now, tmplVars, sysVars>>

SaveOp ==
    \E fault \in SaveFaults :
        /\ Held
        /\ LET r == Save(note, files, dirs, fault)
           IN  /\ note' = r.note
               /\ files' = r.files
               /\ dirs' = r.dirs
               /\ Returned("Save", r)
        /\ UNCHANGED <<now, tmplVars, sysVars>>

LoadOp ==
    \E fault \in LoadFaults :
        /\ Held
        /\ LET r == Load(note, files, dirs, fault)
           IN  /\ note' = r.note
               /\ files' = r.files
               /\ dirs' = r.dirs
               /\ Returned("Load", r)
        /\ UNCHANGED <<now, tmplVars, sysVars>>

DeleteOp ==
    \E fault \in DeleteFaults :
        /\ Held
        /\ LET r == Delete(note, files, dirs, fault)
           IN  /\ note' = r.note
               /\ files' = r.files
               /\ dirs' = r.dirs
               /\ Returned("Delete", r)
        /\ UNCHANGED <<now, tmplVars, sysVars>>

OpenOp ==
    \E fault \in OpenFaults :
        /\ Held /\ note.kind \in NoteKinds
        /\ Returned("Open", BaseOpen(note, files, dirs, fault))
        /\ UNCHANGED <<files, dirs, note, now, tmplVars, sysVars>>

ValidateOp ==
    /\ Held /\ note.kind \in NoteKinds
    /\ Returned("Validate", Result(NoNote, files, dirs, Validate(note), "", <<>>))
    /\ UNCHANGED <<files, dirs, note, now, tmplVars, sysVars>>

ExistsOp ==
    /\ Held /\ note.kind \in NoteKinds
    /\ Returned("Exists", Result(NoNote, files, dirs, NoErr,
                                 IF Exists(note, files) THEN "true" ELSE "false",
                                 <<"FS.FileExists">>))
    /\ UNCHANGED <<files, dirs, note, now, tmplVars, sysVars>>

\* NewBaseNote called with one title and one list of options.
NewBaseNoteCall(title, opts) ==
    LET r == NewBaseNote(title, opts, now)
    IN  /\ note' = r.note
        /\ Returned("NewBaseNote", Result(r.note, files, dirs, r.err, "", <<>>))
        /\ UNCHANGED <<files, dirs, now, tmplVars, sysVars>>

NewBaseNoteOp ==
    \E title \in BaseTitles, opts \in BaseOptions : NewBaseNoteCall(title, opts)

\* BaseNoteFactory.CreateNote called with one title and one list of options.
CreateNoteCall(title, opts) ==
    LET r == CreateNote(title, opts, now)
    IN  /\ note' = r.note
        /\ Returned("CreateNote", Result(r.note, files, dirs, r.err, "", <<>>))
        /\ UNCHANGED <<files, dirs, now, tmplVars, sysVars>>

CreateNoteOp ==
    \E title \in BaseTitles, opts \in BaseOptions : CreateNoteCall(title, opts)

\* NewDailyNote called with one logger, one date and one fault.
NewDailyNoteWithCall(l, date, fault) ==
    LET r == NewDailyNoteWith(l, date, files, dirs, now, fault)
    IN  /\ note' = r.note
        /\ files' = r.files
        /\ dirs' = r.dirs
        /\ Returned("NewDailyNote", r)
        /\ UNCHANGED <<now, tmplVars, sysVars>>

NewDailyNoteWithOp ==
    \E l \in Loggers, date \in Times, fault \in RenderFaults \cup SaveFaults \cup LoadFaults :
        NewDailyNoteWithCall(l, date, fault)

\* Save called on a zettel that was made with one logger.
ZettelSaveWithCall(l, fault) ==
    /\ Held /\ note.kind = "zettel"
    /\ LET r == ZettelSaveWith(l, note, files, dirs, fault)
       IN  /\ note' = r.note
           /\ files' = r.files
           /\ dirs' = r.dirs
           /\ Returned("Save", r)
    /\ UNCHANGED <<now, tmplVars, sysVars>>

ZettelSaveWithOp ==
    \E l \in Loggers, fault \in SaveFaults : ZettelSaveWithCall(l, fault)

\* UpdateContent called on a zettel that was made with one logger.
UpdateContentWithCall(l, c) ==
    /\ Held /\ note.kind = "zettel"
    /\ LET r == UpdateContentWith(l, note, c, now)
       IN  /\ note' = r.note
           /\ Returned("UpdateContent", Result(r.note, files, dirs, r.err, "", <<>>))
    /\ UNCHANGED <<files, dirs, now, tmplVars, sysVars>>

UpdateContentWithOp ==
    \E l \in Loggers, c \in UserContents : UpdateContentWithCall(l, c)

\* Time passes between two operations.
Tick ==
    /\ now < MaxClock
    /\ now' = now + 1
    /\ UNCHANGED <<files, dirs, note, ret, tmplVars, sysVars>>

----------------------------------------------------------------------------
(* DefaultTemplateManager.ProcessTemplateWithContext *)

TemplateNames == {"day", ""}
TemplateData == "d"

DeadlineExceeded == "context deadline exceeded"

NoResult == [result |-> "", err |-> NoErr]

\* What LoadTemplate and the parse of what it read can come to.
LoadOutcomes == {"parsed", "parse error", "not loaded"}
ExecuteOutcomes == {"ok", "fail"}

\* ProcessTemplate up to the cache lookup: the name is validated, and a template
\* file that loads is parsed into the cache. A file that does not load is passed over.
LoadAndParse(name, c, lo) ==
    IF name = ""
    THEN [done |-> TRUE, cache |-> c,
          res |-> [result |-> "", err |-> "template name cannot be empty"]]
    ELSE IF lo = "parsed" THEN [done |-> FALSE, cache |-> c \cup {name}, res |-> NoResult]
    ELSE IF lo = "parse error"
    THEN [done |-> TRUE, cache |-> c,
          res |-> [result |-> "", err |-> "failed to parse template"]]
    ELSE [done |-> FALSE, cache |-> c, res |-> NoResult]

\* ProcessTemplate from the cache lookup on.
LookupAndExecute(name, c, ex) ==
    IF name \notin c THEN [result |-> "", err |-> "template not found"]
    ELSE IF ex = "fail" THEN [result |-> "", err |-> "failed to execute template"]
    ELSE [result |-> Render(name, TemplateData), err |-> NoErr]

\* The call: the result channel is made and the render goroutine started. The
\* context handed in may have expired already.
ProcessTemplateWithContextCall ==
    \E name \in TemplateNames, expired \in BOOLEAN :
        /\ tpc \in {"idle", "returned"}
        /\ calls < MaxCalls
        /\ calls' = calls + 1
        /\ tname' = [tname EXCEPT ![calls + 1] = name]
        /\ rpc' = [rpc EXCEPT ![calls + 1] = "load"]
        /\ ctxDone' = expired
        /\ ctxExpired' = expired
        /\ tpc' = "select"
        /\ UNCHANGED <<tres, rres, cache, noteVars, sysVars>>

\* The caller reaches the select with no case ready, and blocks on both channels.
SelectPark ==
    /\ tpc = "select"
    /\ ~ctxDone
    /\ rpc[calls] # "send"
    /\ tpc' = "parked"
    /\ UNCHANGED <<calls, ctxDone, tres, tname, ctxExpired, rpc, rres, cache, noteVars, sysVars>>

\* The context's deadline passes: Done is closed. A caller blocked in the select is
\* woken on that case there and then; one that has not reached the select finds
\* the case ready when it does.
ContextDeadline ==
    /\ tpc \in {"select", "parked"}
    /\ ~ctxDone
    /\ ctxDone' = TRUE
    /\ tpc' = IF tpc = "parked" THEN "cancelled" ELSE tpc
    /\ UNCHANGED <<calls, tres, tname, ctxExpired, rpc, rres, cache, noteVars, sysVars>>

\* The render goroutine of call c, first half of ProcessTemplate.
RenderLoad ==
    \E c \in Calls, lo \in LoadOutcomes :
        /\ rpc[c] = "load"
        /\ LET r == LoadAndParse(tname[c], cache, lo)
           IN  /\ cache' = r.cache
               /\ rres' = [rres EXCEPT ![c] = r.res]
               /\ rpc' = [rpc EXCEPT ![c] = IF r.done THEN "send" ELSE "execute"]
        /\ UNCHANGED <<calls, tpc, ctxDone, tres, tname, ctxExpired, noteVars, sysVars>>

\* The render goroutine of call c, second half of ProcessTemplate; it then
\* offers its result on the unbuffered channel.
RenderExecute ==
    \E c \in Calls, ex \in ExecuteOutcomes :
        /\ rpc[c] = "execute"
        /\ rres' = [rres EXCEPT ![c] = LookupAndExecute(tname[c], cache, ex)]
        /\ rpc' = [rpc EXCEPT ![c] = "send"]
        /\ UNCHANGED <<calls, tpc, ctxDone, tres, tname, ctxExpired, cache, noteVars, sysVars>>

\* A select that takes the ctx.Done() case only once the render has finished.
SelectCtxDoneAfterRender ==
    /\ (tpc = "select" /\ ctxDone) \/ tpc = "cancelled"
    /\ rpc[calls] = "send"
    /\ tres' = [result |-> "", err |-> DeadlineExceeded]
    /\ tpc' = "returned"
    /\ UNCHANGED <<calls, ctxDone, tname, ctxExpired, rpc, rres, cache, noteVars, sysVars>>

\* select, case <-ctx.Done(): the caller returns ctx.Err().
SelectCtxDone ==
    /\ (tpc = "select" /\ ctxDone) \/ tpc = "cancelled"
    /\ tres' = [result |-> "", err |-> DeadlineExceeded]
    /\ tpc' = "returned"
    /\ UNCHANGED <<calls, ctxDone, tname, ctxExpired, rpc, rres, cache, noteVars, sysVars>>

\* select, case res := <-resultCh: the goroutine's send and the caller's receive meet.
SelectResult ==
    /\ tpc \in {"select", "parked"}
    /\ rpc[calls] = "send"
    /\ tres' = rres[calls]
    /\ rpc' = [rpc EXCEPT ![calls] = "done"]
    /\ tpc' = "returned"
    /\ UNCHANGED <<calls, ctxDone, tname, ctxExpired, rres, cache, noteVars, sysVars>>

----------------------------------------------------------------------------
(* The configuration package, internal/config *)

\* The paths Initialize is handed: none (the default locations are searched, and
\* the defaults used when no file is found), or a file that is not there.
ConfigPaths == {"", "/nonexistent/path/config.yaml"}

InitializeFaults == {"none", "logger", "home"}

NotInitialized == "configuration not initialized"

\* load: the home directory is looked up, then the file read. A named file that
\* cannot be read is an error; a missing file in the default locations is not.
load(path, fault) ==
    IF fault = "home" THEN [cfg |-> "nil", err |-> "failed to get user home directory"]
    ELSE IF path # "" THEN [cfg |-> "nil", err |-> "failed to read config file"]
    ELSE [cfg |-> "loaded", err |-> NoErr]

\* Initialize: the logger is set up, then once.Do runs the load. The function
\* handed to once.Do runs on the first call only; initErr is a variable of the
\* call, nil unless the function has set it.
Initialize(path, fault, inst, done) ==
    IF fault = "logger"
    THEN [instance |-> inst, once |-> done, err |-> "failed to initialize logger"]
    ELSE IF done THEN [instance |-> inst, once |-> TRUE, err |-> NoErr]
    ELSE LET l == load(path, fault)
         IN  [instance |-> IF l.err = NoErr THEN l.cfg ELSE inst, once |-> TRUE, err |-> l.err]

\* Get: the instance, or an error while there is none.
Get(inst) ==
    IF inst = "nil" THEN [cfg |-> "nil", err |-> NotInitialized]
    ELSE [cfg |-> inst, err |-> NoErr]

\* MustGet: Get, and a panic with its error.
MustGet(inst) ==
    LET g == Get(inst)
    IN  IF g.err # NoErr THEN [cfg |-> "nil", err |-> "panic: " \o g.err] ELSE g

InitializeOp ==
    \E path \in ConfigPaths, fault \in InitializeFaults :
        LET r == Initialize(path, fault, instance, once)
        IN  /\ instance' = r.instance
            /\ once' = r.once
            /\ initOk' = (initOk \/ r.err = NoErr)
            /\ ret' = [op |-> "Initialize", err |-> r.err, val |-> path, ops |-> <<>>]
            /\ UNCHANGED <<files, dirs, note, now, tmplVars, wpc, wfile>>

GetOp ==
    LET g == Get(instance)
    IN  /\ ret' = [op |-> "Get", err |-> g.err, val |-> g.cfg, ops |-> <<>>]
        /\ UNCHANGED <<files, dirs, note, now, tmplVars, sysVars>>

MustGetOp ==
    LET g == MustGet(instance)
    IN  /\ ret' = [op |-> "MustGet", err |-> g.err, val |-> g.cfg, ops |-> <<>>]
        /\ UNCHANGED <<files, dirs, note, now, tmplVars, sysVars>>

----------------------------------------------------------------------------
(* The init command, cmd/init.go *)

TemplateDir == Join(DataHome, "templates", "")

\* The directories ensureDirectories lists, in its order: the data home, and the
\* idea, template, periodic and zettel directories below it.
ConfiguredDirs ==
    <<DataHome, Join(DataHome, "ideas", ""), TemplateDir, Join(DataHome, "periodic", ""),
      Join(DataHome, "zettel", "")>>

\* filepath.Dir of a configured directory
ParentDir(path) == IF path = DataHome THEN "/" ELSE DataHome

\* ensureDirectories: the backend's EnsureDirectoryExists for each directory of
\* the list in turn, which makes the parent of the path it is given; the first
\* failure ends the loop.
RECURSIVE ensureDirectories(_, _, _)
ensureDirectories(list, d, fault) ==
    IF list = <<>> THEN [dirs |-> d, err |-> NoErr]
    ELSE LET r == EnsureDirectoryExists(d, ParentDir(Head(list)), fault)
         IN  IF ~r.ok THEN [dirs |-> r.dirs, err |-> "failed to create directory " \o Head(list)]
             ELSE ensureDirectories(Tail(list), r.dirs, fault)

EnsureDirectoriesOp ==
    \E fault \in {"none", "mkdir"} :
        LET r == ensureDirectories(ConfiguredDirs, dirs, fault)
        IN  /\ dirs' = r.dirs
            /\ ret' = [op |-> "ensureDirectories", err |-> r.err, val |-> "", ops |-> <<>>]
            /\ UNCHANGED <<files, note, now, tmplVars, sysVars>>

----------------------------------------------------------------------------
(* The installation of the default templates, pkg/templates *)

\* The files of the embedded default directory, in the order ReadDir lists them.
DefaultFiles == <<"day.md">>
DefaultFileSet == {DefaultFiles[i] : i \in DOMAIN DefaultFiles}

\* The embedded content of a default template, and what a user has put in its place.
DefaultContent(file) == "default " \o file
CustomContent == "custom"

TemplatePath(file) == Join(DataHome, "templates", file)

BackupExtension == ".bak"

\* time.Now().Format("20060102150405"): the clock to the second. The instants of
\* the clock are seconds here; calls made between two ticks read the same one.
Timestamp(t) == "2025030100000" \o Digit[t + 1]

\* The backups CreateBackup can make of a file.
BackupPaths(path) ==
    {path \o BackupExtension} \cup
    {path \o "." \o Timestamp(t) \o BackupExtension : t \in 0..MaxClock}

Backups(f, path) == DOMAIN f \cap BackupPaths(path)

InstallFaults == {"none", "mkdir", "rename", "write"}

\* CreateBackup: the file is renamed to path.bak, or, when that exists, to
\* path.<timestamp>.bak. os.Rename replaces a file that has the new name.
CreateBackup(f, path, t, fault) ==
    LET plain == path \o BackupExtension
        backupPath == IF FileExists(f, plain)
                      THEN path \o "." \o Timestamp(t) \o BackupExtension
                      ELSE plain
    IN  IF fault = "rename" \/ ~FileExists(f, path) THEN [files |-> f, ok |-> FALSE]
        ELSE [files |-> Put(Remove(f, path), backupPath, f[path]), ok |-> TRUE]

\* The input reader handed in: none, or one that answers the question asked
\* about each file.
Readers ==
    {[present |-> FALSE, answers |-> [file \in DefaultFileSet |-> "n"]]} \cup
    {[present |-> TRUE, answers |-> a] : a \in [DefaultFileSet -> {"y", "n"}]}

\* One round of the loop of InstallDefaultTemplates that overwrites the file it
\* finds without a backup of it.
InstallFileNoBackup(f, file, force, reader, t, fault) ==
    LET p == TemplatePath(file)
        w == WriteFile(f, p, DefaultContent(file), fault)
    IN  [files |-> w.files, ops |-> <<"write " \o p>>,
         err |-> IF w.ok THEN NoErr ELSE "failed to write template " \o file]

\* One round of the loop of InstallDefaultTemplates: a file that exists is
\* overwritten when Force is set or the user answers "y", after its backup; any
\* other answer skips the file.
InstallFile(f, file, force, reader, t, fault) ==
    LET p == TemplatePath(file)
        asked == IF force THEN <<>> ELSE <<"prompt " \o file>>
    IN  IF ~FileExists(f, p)
        THEN LET w == WriteFile(f, p, DefaultContent(file), fault)
             IN  [files |-> w.files, ops |-> <<"write " \o p>>,
                  err |-> IF w.ok THEN NoErr ELSE "failed to write template " \o file]
        ELSE IF ~force /\ ~reader.present
        THEN [files |-> f, ops |-> <<>>,
              err |-> "file " \o file \o " exists; set Force to true to overwrite"]
        ELSE IF ~force /\ reader.answers[file] # "y"
        THEN [files |-> f, ops |-> asked, err |-> NoErr]
        ELSE LET b == CreateBackup(f, p, t, fault)
             IN  IF ~b.ok
                 THEN [files |-> b.files, ops |-> asked \o <<"backup " \o p>>,
                       err |-> "failed to create backup for " \o p]
                 ELSE LET w == WriteFile(b.files, p, DefaultContent(file), fault)
                      IN  [files |-> w.files,
                           ops |-> asked \o <<"backup " \o p, "write " \o p>>,
                           err |-> IF w.ok THEN NoErr
                                   ELSE "failed to write template " \o file]

\* The loop of InstallDefaultTemplates: it returns at the first error.
RECURSIVE InstallLoop(_, _, _, _, _, _, _)
InstallLoop(list, f, force, reader, t, fault, ops) ==
    IF list = <<>> THEN [files |-> f, err |-> NoErr, ops |-> ops]
    ELSE LET r == InstallFile(f, Head(list), force, reader, t, fault)
         IN  IF r.err # NoErr THEN [files |-> r.files, err |-> r.err, ops |-> ops \o r.ops]
             ELSE InstallLoop(Tail(list), r.files, force, reader, t, fault, ops \o r.ops)

\* InstallDefaultTemplates, with the embedded store: the target directory is
\* made, then each default file installed.
InstallDefaultTemplates(f, d, target, force, reader, t, fault) ==
    IF target = ""
    THEN [files |-> f, dirs |-> d, err |-> "target directory cannot be empty", ops |-> <<>>]
    ELSE LET m == EnsureDirectoryExists(d, target, fault)
         IN  IF ~m.ok
             THEN [files |-> f, dirs |-> m.dirs, err |-> "failed to create target directory",
                   ops |-> <<>>]
             ELSE LET r == InstallLoop(DefaultFiles, f, force, reader, t, fault, <<>>)
                  IN  [files |-> r.files, dirs |-> m.dirs, err |-> r.err, ops |-> r.ops]

\* What the user answers to the action prompt: skip all, overwrite all, choose
\* per file, or something else.
ActionResponses == {"s", "o", "c", "x"}

\* promptForAction
promptForAction(response) ==
    IF response = "s" THEN [action |-> "skip", err |-> NoErr]
    ELSE IF response = "o" THEN [action |-> "overwrite", err |-> NoErr]
    ELSE IF response = "c" THEN [action |-> "choose", err |-> NoErr]
    ELSE [action |-> "", err |-> "invalid option"]

\* installTemplate: a file that exists is overwritten when Force is set or the
\* user answers "y" to promptForFile, after its backup.
installTemplate(f, file, force, answers, t, fault) ==
    LET p == TemplatePath(file)
        asked == IF force THEN <<>> ELSE <<"prompt " \o file>>
    IN  IF ~FileExists(f, p)
        THEN LET w == WriteFile(f, p, DefaultContent(file), fault)
             IN  [files |-> w.files, ops |-> <<"write " \o p>>,
                  err |-> IF w.ok THEN NoErr ELSE "failed to write template " \o file]
        ELSE IF ~force /\ answers[file] # "y"
        THEN [files |-> f, ops |-> asked, err |-> NoErr]
        ELSE LET b == CreateBackup(f, p, t, fault)
             IN  IF ~b.ok
                 THEN [files |-> b.files, ops |-> asked \o <<"backup " \o p>>,
                       err |-> "failed to create backup for " \o p]
                 ELSE LET w == WriteFile(b.files, p, DefaultContent(file), fault)
                      IN  [files |-> w.files,
                           ops |-> asked \o <<"backup " \o p, "write " \o p>>,
                           err |-> IF w.ok THEN NoErr
                                   ELSE "failed to write template " \o file]

\* processTemplateInstallation: every default file is gone through, the errors
\* collected, and the first of them returned.
RECURSIVE processTemplateInstallation(_, _, _, _, _, _, _, _)
processTemplateInstallation(list, f, force, answers, t, fault, ops, err) ==
    IF list = <<>> THEN [files |-> f, err |-> err, ops |-> ops]
    ELSE LET r == installTemplate(f, Head(list), force, answers, t, fault)
         IN  processTemplateInstallation(Tail(list), r.files, force, answers, t, fault,
                                         ops \o r.ops, IF err = NoErr THEN r.err ELSE err)

\* InstallDefaultWithOptions: when a default file is there already and Force is
\* not set, the user is asked for an action, and Force becomes whether the
\* answer was "overwrite".
InstallDefaultWithOptions(f, d, target, force, response, answers, t, fault) ==
    IF target = ""
    THEN [files |-> f, dirs |-> d, err |-> "template directory cannot be empty", ops |-> <<>>]
    ELSE LET m == EnsureDirectoryExists(d, target, fault)
             existingFiles == {file \in DefaultFileSet : FileExists(f, TemplatePath(file))}
             ask == existingFiles # {} /\ ~force
             a == promptForAction(response)
         IN  IF ~m.ok
             THEN [files |-> f, dirs |-> m.dirs, err |-> "failed to create template directory",
                   ops |-> <<>>]
             ELSE IF ask /\ a.err # NoErr
             THEN [files |-> f, dirs |-> m.dirs, err |-> "failed to get user action",
                   ops |-> <<"prompt action">>]
             ELSE LET r == processTemplateInstallation(DefaultFiles, f,
                                 IF ask THEN a.action = "overwrite" ELSE force,
                                 answers, t, fault,
                                 IF ask THEN <<"prompt action">> ELSE <<>>, NoErr)
                  IN  [files |-> r.files, dirs |-> m.dirs, err |-> r.err, ops |-> r.ops]

\* The user puts a text of their own in the place of a template.
EditTemplateOp ==
    \E file \in DefaultFileSet :
        /\ TemplateDir \in dirs
        /\ files' = Put(files, TemplatePath(file), CustomContent)
        /\ ret' = [op |-> "EditTemplate", err |-> NoErr, val |-> file, ops |-> <<>>]
        /\ UNCHANGED <<dirs, note, now, tmplVars, sysVars>>

CreateBackupCall(file, fault) ==
    LET r == CreateBackup(files, TemplatePath(file), now, fault)
    IN  /\ files' = r.files
        /\ ret' = [op |-> "CreateBackup", err |-> IF r.ok THEN NoErr ELSE "rename failed",
                   val |-> file, ops |-> <<>>]
        /\ UNCHANGED <<dirs, note, now, tmplVars, sysVars>>

CreateBackupOp ==
    \E file \in DefaultFileSet, fault \in {"none", "rename"} : CreateBackupCall(file, fault)

InstallTargets == {TemplateDir, ""}

InstallDefaultTemplatesCall(target, force, reader, fault) ==
    LET r == InstallDefaultTemplates(files, dirs, target, force, reader, now, fault)
    IN  /\ files' = r.files
        /\ dirs' = r.dirs
        /\ ret' = [op |-> "InstallDefaultTemplates", err |-> r.err, val |-> "", ops |-> r.ops]
        /\ UNCHANGED <<note, now, tmplVars, sysVars>>

InstallDefaultTemplatesOp ==
    \E target \in InstallTargets, force \in BOOLEAN, reader \in Readers,
       fault \in InstallFaults :
        InstallDefaultTemplatesCall(target, force, reader, fault)

InstallDefaultWithOptionsCall(target, force, response, answers, fault) ==
    LET r == InstallDefaultWithOptions(files, dirs, target, force, response, answers,
                                       now, fault)
    IN  /\ files' = r.files
        /\ dirs' = r.dirs
        /\ ret' = [op |-> "InstallDefaultWithOptions", err |-> r.err, val |-> response,
                   ops |-> r.ops]
        /\ UNCHANGED <<note, now, tmplVars, sysVars>>

InstallDefaultWithOptionsOp ==
    \E target \in InstallTargets, force \in BOOLEAN, response \in ActionResponses,
       answers \in [DefaultFileSet -> {"y", "n"}], fault \in InstallFaults :
        InstallDefaultWithOptionsCall(target, force, response, answers, fault)

----------------------------------------------------------------------------
(* Two processes in BaseNote.Save on one path *)

\* The content a process saves: n bytes of its own.
ContentOf(p, n) == [i \in 1..n |-> p]

\* write(2) of data at the start of the file: the bytes it covers are replaced,
\* the bytes after them stay.
WriteAtStart(old, data) ==
    IF Len(data) >= Len(old) THEN data
    ELSE data \o SubSeq(old, Len(data) + 1, Len(old))

\* os.WriteFile, first step: the file is opened with O_CREATE|O_TRUNC. Nothing
\* in Save or in os.WriteFile locks the file or writes to a temporary one.
SaveOpen(p) ==
    \E n \in 1..MaxBytes :
        /\ wpc[p].pc \in {"idle", "done"}
        /\ wpc' = [wpc EXCEPT ![p] = [pc |-> "opened", len |-> n]]
        /\ wfile' = <<>>
        /\ UNCHANGED <<instance, once, initOk, noteVars, tmplVars>>

\* os.WriteFile, second step: the content is written through the descriptor,
\* whose offset is 0.
SaveWrite(p) ==
    /\ wpc[p].pc = "opened"
    /\ wpc' = [wpc EXCEPT ![p].pc = "written"]
    /\ wfile' = WriteAtStart(wfile, ContentOf(p, wpc[p].len))
    /\ UNCHANGED <<instance, once, initOk, noteVars, tmplVars>>

\* os.WriteFile, last step: the file is closed, and Save returns nil.
SaveClose(p) ==
    /\ wpc[p].pc = "written"
    /\ wpc' = [wpc EXCEPT ![p].pc = "done"]
    /\ ret' = [op |-> "Save", err |-> NoErr, val |-> p, ops |-> <<>>]
    /\ UNCHANGED <<instance, once, initOk, wfile, files, dirs, note, now, tmplVars>>

----------------------------------------------------------------------------
(* DefaultTemplateManager.ProcessTemplate and the template files *)

RenderNames == {"day", "zettel", ""}

\* A template text that parses, and one that does not.
GoodTemplate == "{{.}}"
BrokenTemplate == "{{"

\* filepath.Join(tm.config.TemplateDir, name+tm.config.TemplateExtension)
TemplateFile(name) == TemplatePath(MdName(name))

\* ProcessTemplate, called directly. LoadTemplate reads the file of the name: a
\* file that is not there, or cannot be read, is not loaded, and one that is
\* read is parsed.
ProcessTemplate(f, c, name, fault, ex) ==
    LET lo == IF ~FileExists(f, TemplateFile(name)) \/ fault = "read" THEN "not loaded"
              ELSE IF f[TemplateFile(name)] = BrokenTemplate THEN "parse error"
              ELSE "parsed"
        l == LoadAndParse(name, c, lo)
    IN  IF l.done THEN [cache |-> l.cache, res |-> l.res]
        ELSE [cache |-> l.cache, res |-> LookupAndExecute(name, l.cache, ex)]

ProcessTemplateCall(name, fault, ex) ==
    LET r == ProcessTemplate(files, cache, name, fault, ex)
    IN  /\ cache' = r.cache
        /\ ret' = [op |-> "ProcessTemplate", err |-> r.res.err, val |-> r.res.result,
                   ops |-> <<>>]
        /\ UNCHANGED <<files, dirs, note, now, calls, tpc, ctxDone, tres, tname, ctxExpired,
                       rpc, rres, sysVars>>

ProcessTemplateOp ==
    \E name \in RenderNames, fault \in LoadFaults, ex \in ExecuteOutcomes :
        ProcessTemplateCall(name, fault, ex)

\* The user puts a template file in the template directory, or takes one away.
PutTemplateOp ==
    \E name \in RenderNames \ {""}, text \in {GoodTemplate, BrokenTemplate} :
        /\ files' = Put(files, TemplateFile(name), text)
        /\ ret' = [op |-> "PutTemplate", err |-> NoErr, val |-> name, ops |-> <<>>]
        /\ UNCHANGED <<dirs, note, now, tmplVars, sysVars>>

RemoveTemplateOp ==
    \E name \in RenderNames \ {""} :
        /\ FileExists(files, TemplateFile(name))
        /\ files' = Remove(files, TemplateFile(name))
        /\ ret' = [op |-> "RemoveTemplate", err |-> NoErr, val |-> name, ops |-> <<>>]
        /\ UNCHANGED <<dirs, note, now, tmplVars, sysVars>>

----------------------------------------------------------------------------
(* The specifications *)

\* The configuration package before any call of it, and no process saving.
InitSys ==
    /\ instance = "nil"
    /\ once = FALSE
    /\ initOk = FALSE
    /\ wpc = [p \in Procs |-> [pc |-> "idle", len |-> 0]]
    /\ wfile = <<>>

Init ==
    /\ files = [p \in {} |-> ""]
    /\ dirs = {DataHome}
    /\ note = NoNote
    /\ now = 0
    /\ ret = [op |-> "none", err |-> NoErr, val |-> "", ops |-> <<>>]
    /\ calls = 0
    /\ tpc = "idle"
    /\ ctxDone = FALSE
    /\ ctxExpired = FALSE
    /\ tres = NoResult
    /\ tname = [c \in Calls |-> ""]
    /\ rpc = [c \in Calls |-> "none"]
    /\ rres = [c \in Calls |-> NoResult]
    /\ cache = {}
    /\ InitSys

\* The notes of pkg/note, pkg/periodic and pkg/zettel, and the zet command.
Next ==
    \/ NewDailyNoteOp
    \/ NewPeriodicNoteOp
    \/ SetNavigatorOp
    \/ NavigateOp
    \/ NewZettelNoteOp
    \/ ZetCmd
    \/ SetContentOp
    \/ ApplyTemplateOp
    \/ SaveOp
    \/ LoadOp
    \/ DeleteOp
    \/ OpenOp
    \/ ValidateOp

Spec == Init /\ [][Next]_vars

\* The notes of internal/note and internal/note/builtin.
NextInternal ==
    \/ InternalNewPeriodicNoteOp
    \/ BuiltinNewDailyNoteOp
    \/ SetTitleOp
    \/ SetNavigatorOp
    \/ SetContentOp
    \/ SaveOp
    \/ LoadOp
    \/ DeleteOp

SpecInternal == Init /\ [][NextInternal]_vars

\* The template manager. A select with a ready case is taken; how long a render
\* takes is not bounded, so the render goroutine gets no fairness.
NextTmpl ==
    \/ ProcessTemplateWithContextCall
    \/ SelectPark
    \/ ContextDeadline
    \/ RenderLoad
    \/ RenderExecute
    \/ SelectCtxDone
    \/ SelectResult

SpecTmpl == Init /\ [][NextTmpl]_vars /\ WF_vars(SelectCtxDone)

\* The base note of pkg/note, built by its constructor or its factory, under a
\* clock that advances.
NextBase ==
    \/ Tick
    \/ NewBaseNoteOp
    \/ CreateNoteOp
    \/ SetContentOp
    \/ ApplyTemplateOp
    \/ SaveOp
    \/ LoadOp
    \/ DeleteOp
    \/ ExistsOp
    \/ OpenOp
    \/ ValidateOp

SpecBase == Init /\ [][NextBase]_vars

\* The values a PeriodicNote or DailyNote can hold when Validate is called on it:
\* what the constructors build, and what a zero or partly filled struct holds.
PeriodicValues ==
    {[kind |-> k, title |-> ti, content |-> "", path |-> p,
      fileName |-> "2025-03-01.md", subDir |-> "day", templateName |-> "day",
      created |-> 0, modified |-> 0,
      periodType |-> pt, date |-> [day |-> 1], navigator |-> nav] :
        k \in PeriodicKinds,
        ti \in {"", "2025-03-01"},
        p \in {"", Join(DataHome, "day", "2025-03-01.md")},
        pt \in {"", "daily"},
        nav \in {"nil", "daily"}}

InitValidate ==
    /\ note \in PeriodicValues
    /\ files = [p \in {} |-> ""]
    /\ dirs = {DataHome}
    /\ now = 0
    /\ ret = [op |-> "none", err |-> NoErr, val |-> "", ops |-> <<>>]
    /\ calls = 0
    /\ tpc = "idle"
    /\ ctxDone = FALSE
    /\ ctxExpired = FALSE
    /\ tres = NoResult
    /\ tname = [c \in Calls |-> ""]
    /\ rpc = [c \in Calls |-> "none"]
    /\ rres = [c \in Calls |-> NoResult]
    /\ cache = {}
    /\ InitSys

\* Validate applied to periodic notes of every such value.
NextValidate ==
    \/ ValidateOp
    \/ SetNavigatorOp
    \/ SetContentOp

SpecValidate == InitValidate /\ [][NextValidate]_vars

\* The daily note and the zettel under each logger they can be handed.
NextLogger ==
    \/ NewDailyNoteWithOp
    \/ NewZettelNoteOp
    \/ ZettelSaveWithOp
    \/ UpdateContentWithOp
    \/ LoadOp
    \/ DeleteOp

SpecLogger == Init /\ [][NextLogger]_vars

\* The directories a disk can hold before the init command runs: the root, and
\* any of the configured directories together with those above it.
DiskDirs ==
    {{"/"}} \cup
    {{"/", DataHome} \cup leaves : leaves \in SUBSET {ConfiguredDirs[i] : i \in 2..5}}

\* The state before any call, on a disk with the directories d and no files.
InitOn(d) ==
    /\ dirs = d
    /\ files = [p \in {} |-> ""]
    /\ note = NoNote
    /\ now = 0
    /\ ret = [op |-> "none", err |-> NoErr, val |-> "", ops |-> <<>>]
    /\ calls = 0
    /\ tpc = "idle"
    /\ ctxDone = FALSE
    /\ ctxExpired = FALSE
    /\ tres = NoResult
    /\ tname = [c \in Calls |-> ""]
    /\ rpc = [c \in Calls |-> "none"]
    /\ rres = [c \in Calls |-> NoResult]
    /\ cache = {}
    /\ InitSys

InitCmd == \E d \in DiskDirs : InitOn(d)

\* The configuration package and the directories of the init command.
NextInitCmd ==
    \/ InitializeOp
    \/ GetOp
    \/ MustGetOp
    \/ EnsureDirectoriesOp

SpecInitCmd == InitCmd /\ [][NextInitCmd]_vars

\* The installation of the default templates, by either installer, under a clock
\* that advances and a user who edits the installed templates.
NextInstall ==
    \/ Tick
    \/ EditTemplateOp
    \/ CreateBackupOp
    \/ InstallDefaultTemplatesOp
    \/ InstallDefaultWithOptionsOp

InitInstall == InitOn({"/", DataHome})

SpecInstall == InitInstall /\ [][NextInstall]_vars

\* Two processes that save to the same path, each as often as it likes.
NextSaving ==
    \/ \E p \in Procs : SaveOpen(p)
    \/ \E p \in Procs : SaveWrite(p)
    \/ \E p \in Procs : SaveClose(p)

SpecSaving == Init /\ [][NextSaving]_vars

\* ProcessTemplate called directly, while template files come and go.
NextRender ==
    \/ ProcessTemplateOp
    \/ PutTemplateOp
    \/ RemoveTemplateOp

SpecRender == Init /\ [][NextRender]_vars

----------------------------------------------------------------------------
(* Properties of the notes' construction (Spec) *)

ZetPath(title) == Join(DataHome, "0-inbox", MdName(title))

CreateOps == <<"FS.FileExists", "TM.ProcessTemplate", "FS.EnsureDirectoryExists", "os.WriteFile">>
LoadOps == <<"FS.FileExists", "os.ReadFile">>

\* C1: NewDailyNote for a date whose file does not exist applies the "day" template
\* and then saves: when it returns a note, the note's content is the rendered text
\* and the file, now there, holds that text.
C1_DailyCreated ==
    [][(ret'.op = "NewDailyNote" /\ ret'.err = NoErr /\ ~Exists(note', files))
          => /\ note'.content = Render("day", DailyData(note'))
             /\ Exists(note', files')
             /\ files'[note'.path] = Render("day", DailyData(note'))
             /\ ret'.ops = CreateOps]_vars

C1_Witness ==
    /\ ret.op = "NewDailyNote" /\ ret.err = NoErr /\ ret.ops = CreateOps
    /\ Exists(note, files)
    /\ files[note.path] = Render("day", DailyData(note))

\* C2: NewDailyNote for a date whose file exists with content C returns a note whose
\* content is C, without rendering the template and without touching the file; and
\* a successful Save writes exactly the note's content, so that content set with
\* SetContent and saved is what the next construction returns.
C2_DailyLoaded ==
    [][/\ (ret'.op = "NewDailyNote" /\ ret'.err = NoErr /\ Exists(note', files))
            => /\ note'.content = files[note'.path]
               /\ files' = files
               /\ ret'.ops = LoadOps
       /\ (ret'.op = "Save" /\ ret'.err = NoErr /\ note.kind = "daily")
            => /\ files' = Put(files, note.path, note.content)
               /\ note' = note]_vars

C2_Witness ==
    /\ ret.op = "NewDailyNote" /\ ret.err = NoErr /\ ret.ops = LoadOps
    /\ note.content \in UserContents
    /\ files[note.path] = note.content

\* C3: a Zettel constructed for a path whose file exists comes back with the file's
\* content, and the zet command (construct, Save, Open) leaves the content of an
\* existing file as it was.
C3_ZettelKeepsStored ==
    [][/\ (ret'.op = "NewZettelNote" /\ ret'.err = NoErr /\ Exists(note', files))
            => note'.content = files[note'.path]
       /\ ret'.op = "zet"
            => \A title \in ZetTitles :
                   FileExists(files, ZetPath(title))
                       => /\ FileExists(files', ZetPath(title))
                          /\ files'[ZetPath(title)] = files[ZetPath(title)]]_vars

\* C4: a Zettel constructed for a path whose file does not exist has the "zet"
\* template applied and is saved: after the constructor Exists() is true and the
\* content is the rendered text.
C4_ZettelCreated ==
    [][(ret'.op = "NewZettelNote" /\ ret'.err = NoErr /\ ~Exists(note', files))
          => /\ Exists(note', files')
             /\ note'.content = Render("zet", note'.title)
             /\ files'[note'.path] = note'.content]_vars

\* C5: NewDailyNote returns either an error and no note, or a note that is fully
\* initialised, its file there and holding its content: a failure of the template,
\* of Save or of Load never yields a note.
C5_FailedInitNoNote ==
    [][ret'.op = "NewDailyNote"
          => IF ret'.err # NoErr THEN note' = NoNote
             ELSE /\ note' # NoNote
                  /\ Exists(note', files')
                  /\ files'[note'.path] = note'.content]_vars

C5_Witness ==
    /\ ret.op = "NewDailyNote"
    /\ ret.err = "failed to save daily note: failed to write file"
    /\ note = NoNote

\* C6: Save and Load on a PeriodicNote whose navigator is unset fail with a
\* validation error before any filesystem call is made.
C6_SaveLoadNeedNavigator ==
    [][(ret'.op \in {"Save", "Load"} /\ note.kind \in PeriodicKinds
            /\ note.navigator = "nil")
          => /\ ret'.err # NoErr
             /\ ret'.ops = <<>>
             /\ files' = files]_vars

C8_DeleteIdempotent ==
    [][(ret'.op = "Delete" /\ note.path # "" /\ ~Exists(note, files))
          => /\ ret'.err = NoErr
             /\ files' = files]_vars

----------------------------------------------------------------------------
(* Properties of the first PeriodicNote (SpecInternal) *)

----------------------------------------------------------------------------
(* Properties of ProcessTemplateWithContext (SpecTmpl) *)

DeadlineResult == [result |-> "", err |-> DeadlineExceeded]

Abandoned(c) ==
    /\ rpc[c] = "send"
    /\ ~(c = calls /\ tpc \in {"select", "parked"})

\* C11: a render goroutine whose caller has returned on the deadline runs to its end
\* and terminates, its result thrown away: no render is ever left blocked in its
\* send with nobody to receive, so abandoned goroutines do not pile up.
C11_AbandonedRenderEnds == \A c \in Calls : ~Abandoned(c)

\* C12: a call handed a context whose deadline has already passed returns the
\* deadline-exceeded error and never what the render produced, however the caller
\* and the render goroutine are interleaved.
C12_ExpiredContextReturnsDeadline ==
    [][(ctxExpired /\ tpc # "returned" /\ tpc' = "returned")
         => tres' = DeadlineResult]_vars

----------------------------------------------------------------------------
(* Properties of the base note (SpecBase) *)

Supplied(opts, name) == \E i \in DOMAIN opts : opts[i].opt = name

\* What a creation is refused with when the title or the place is missing.
ValidationErrors ==
    {"title cannot be empty", "subdirectory and filename must be provided"}

\* C13: a creation with an empty title, or with no option that gives the
\* subdirectory, or with none that gives the filename, fails with a validation error
\* and hands back no note; the factory's CreateNote fails on the same inputs, with
\* the constructor's error wrapped.
\* (Stated step by step: a step either handed back no note and a validation error,
\* or it is not a creation from any such input.)
C13_CreationValidates ==
    [][/\ \/ ret'.op # "NewBaseNote"
          \/ note' = NoNote /\ ret'.err \in ValidationErrors
          \/ \A title \in BaseTitles, opts \in BaseOptions :
                (\/ title = ""
                 \/ ~Supplied(opts, "WithSubDir")
                 \/ ~Supplied(opts, "WithFileName")) => ~NewBaseNoteCall(title, opts)
       /\ \/ ret'.op # "CreateNote"
          \/ /\ note' = NoNote
             /\ ret'.err \in {"failed to create base note: " \o e : e \in ValidationErrors}
          \/ \A title \in BaseTitles, opts \in BaseOptions :
                (\/ title = ""
                 \/ ~Supplied(opts, "WithSubDir")
                 \/ ~Supplied(opts, "WithFileName")) => ~CreateNoteCall(title, opts)]_vars

C13_Witness ==
    /\ ret.op = "CreateNote"
    /\ ret.err = "failed to create base note: subdirectory and filename must be provided"
    /\ note = NoNote

\* The notes a caller can construct anew for the path of n: whatever content and
\* template the new instance is given, it is another object at the same path.
FreshInstances(n) ==
    {m \in {CreateNote(n.title, opts, now).note : opts \in BaseOptions} :
        m # NoNote /\ m.path = n.path}

\* C14: for a note with a path and whatever content S it holds, a Save that succeeds
\* followed by a Load that succeeds on a new instance made for the same path leaves
\* that instance with content exactly S. Step by step: a Save that succeeds leaves
\* the file holding the note's content, and a Load that succeeds leaves the note
\* holding the file's.
C14_SaveLoadRoundTrip ==
    /\ [](Held =>
            \A sf \in SaveFaults, lf \in LoadFaults, m \in FreshInstances(note) :
                LET s == Save(note, files, dirs, sf)
                    l == Load(m, s.files, s.dirs, lf)
                IN  (s.err = NoErr /\ l.err = NoErr) => l.note.content = note.content)
    /\ [][/\ (Held /\ ret'.op = "Save" /\ ret'.err = NoErr)
               => (note.path \in DOMAIN files' /\ files'[note.path] = note.content)
          /\ (Held /\ ret'.op = "Load" /\ ret'.err = NoErr)
               => (note.path \in DOMAIN files /\ note'.content = files[note.path])]_vars

\* A new instance, made after the file was written, has loaded what was saved.
C14_Witness ==
    /\ ret.op = "Load"
    /\ ret.err = NoErr
    /\ note.created = MaxClock
    /\ note.content \in UserContents
    /\ files[note.path] = note.content

\* The methods of the fs.FileSystem interface, as ret.ops names their calls.
BackendCalls ==
    {"FS.EnsureDirectoryExists", "FS.WriteFile", "FS.ReadFile", "FS.FileExists",
     "FS.DeleteFile", "FS.OpenInEditor"}

\* C15: Save, Load and Delete reach the disk only through the injected storage
\* backend: every filesystem call they make is a call of one of the backend's
\* methods, so a backend that records its calls sees each write, read and removal.
C15_OnlyThroughBackend ==
    ret.op \in {"Save", "Load", "Delete"}
        => \A i \in DOMAIN ret.ops : ret.ops[i] \in BackendCalls

\* C16: every operation that changes the content a note holds in memory (SetContent,
\* an ApplyTemplate that succeeds, a Load that succeeds) sets the modified timestamp
\* to the time of the change, so modified is never older than the last change of
\* content.
C16_ModifiedFollowsContent ==
    [][(/\ Held
        /\ ret'.op \in {"SetContent", "ApplyTemplate", "Load"}
        /\ note'.content # note.content)
         => note'.modified = now]_vars

\* C17: ApplyTemplate puts the rendered text in place of the content only when the
\* note has a template name and the renderer succeeds. With no template name, or
\* when the renderer fails (the template is missing, or its execution fails), it
\* returns an error and the content is what it was.
C17_ApplyTemplateAllOrNothing ==
    /\ [](Held =>
            \A fault \in RenderFaults :
                (ApplyTemplate(note, note.title, fault, now).err = NoErr)
                    <=> (note.templateName # "" /\ fault = "none"))
    /\ [][(Held /\ ret'.op = "ApplyTemplate") =>
            /\ ret'.err = NoErr
                 => /\ note.templateName # ""
                    /\ note'.content = Render(note.templateName, note.title)
            /\ ret'.err # NoErr
                 => /\ note' = note
                    /\ ret'.err \in {"no template name set", "failed to process template"}
            /\ note.templateName = "" => ret'.err = "no template name set"]_vars

\* The renderer failed on a note that has a template name and content of its own.
C17_Witness ==
    /\ ret.op = "ApplyTemplate"
    /\ ret.err = "failed to process template"
    /\ note.templateName # ""
    /\ note.content \in UserContents

\* C18: PeriodicNote.Validate succeeds exactly when the base validation passes (the
\* title and the path are not empty), the navigator is not nil and the period type
\* is not empty. A PeriodicNote with no navigator never validates, and one that its
\* constructor built (title and path set) fails with the error that names the
\* missing navigator.
C18_PeriodicValidate ==
    [][(Held /\ note.kind \in PeriodicKinds /\ ret'.op = "Validate" /\ note' = note) =>
          /\ (ret'.err = NoErr)
                <=> /\ note.title # ""
                    /\ note.path # ""
                    /\ note.navigator # "nil"
                    /\ note.periodType # ""
          /\ (note.title # "" /\ note.path # "" /\ note.navigator = "nil")
                => ret'.err = "period navigator is required"]_vars

C18_Witness ==
    /\ ret.op = "Validate"
    /\ ret.err = "period navigator is required"
    /\ note.kind = "periodic"
    /\ note.navigator = "nil"
    /\ note.periodType = "daily"

NoteMethods ==
    {"SetContent", "ApplyTemplate", "Save", "Load", "Delete", "Exists", "Open", "Validate"}

\* C19: once a note is constructed, none of SetContent, ApplyTemplate, Save, Load,
\* Delete, Exists, Open and Validate changes its path or its created timestamp,
\* whether the operation succeeds or fails and however much later it runs.
C19_PathAndCreatedFixed ==
    [][(Held /\ ret'.op \in NoteMethods)
         => /\ Held'
            /\ note'.path = note.path
            /\ note'.created = note.created]_vars

\* The content was set later than the note was made, and created still says when.
C19_Witness ==
    /\ ret.op = "SetContent"
    /\ note.content \in UserContents
    /\ note.created = 0
    /\ note.modified = MaxClock
    /\ note.path = Join(DataHome, "notes", "test.md")

\* C20: construction and the operations give the same result and have the same
\* effect on the disk whether the logger is supplied, absent (nil) or failing: a
\* step of NewDailyNote, of a zettel's Save or of its UpdateContent under any logger
\* is the step the same call makes under a supplied one.
C20_LoggerMakesNoDifference ==
    [][\A l \in Loggers :
          /\ \A date \in Times, fault \in RenderFaults \cup SaveFaults \cup LoadFaults :
                NewDailyNoteWithCall(l, date, fault)
                    => NewDailyNoteWithCall("supplied", date, fault)
          /\ \A fault \in SaveFaults :
                ZettelSaveWithCall(l, fault) => ZettelSaveWithCall("supplied", fault)
          /\ \A c \in UserContents :
                UpdateContentWithCall(l, c) => UpdateContentWithCall("supplied", c)]_vars

----------------------------------------------------------------------------
(* Properties of navigation (Spec) *)

\* C21: for every date D the daily navigator's Previous is the day before D, its
\* Next the day after D, and its Start and End are D; a periodic note that has the
\* daily navigator returns these values for its own date, without error. The days
\* are compared as the calendar writes them, so the day before 1 March is 28 February.
C21_DailyNavigation ==
    /\ [](\A D \in Times :
            /\ DailyPrevious(D).day = D.day - 1
            /\ DailyNext(D).day = D.day + 1
            /\ DailyStart(D) = D
            /\ DailyEnd(D) = D)
    /\ [][(Held /\ note.kind \in PeriodicKinds /\ note.navigator = "daily"
             /\ ret'.op \in NavOps /\ note' = note) =>
            /\ ret'.err = NoErr
            /\ ret'.op = "Previous" => ret'.val = FormatDate([day |-> note.date.day - 1])
            /\ ret'.op = "Next" => ret'.val = FormatDate([day |-> note.date.day + 1])
            /\ ret'.op \in {"Start", "End"} => ret'.val = FormatDate(note.date)]_vars

C21_Witness ==
    /\ ret.op = "Previous"
    /\ ret.err = NoErr
    /\ ret.val = "2025-02-28"
    /\ Held /\ note.navigator = "daily"
    /\ note.date = [day |-> 1]

----------------------------------------------------------------------------
(* Properties of a failed construction (Spec) *)

\* The last operation rendered the template: NewDailyNote does so only on the
\* branch that initialises a note whose file is absent.
TookInitBranch(r) == \E i \in DOMAIN r.ops : r.ops[i] = "TM.ProcessTemplate"

\* C22: when NewDailyNote fails on the initialising branch, by the template or by
\* Save, it leaves no file at the note's path: the files on disk are those that were
\* there before, so the next construction for that date initialises again.
C22_FailedInitLeavesNoFile ==
    [][(ret'.op = "NewDailyNote" /\ ret'.err # NoErr /\ TookInitBranch(ret'))
         => DOMAIN files' = DOMAIN files]_vars

----------------------------------------------------------------------------
(* Properties of the configuration package (SpecInitCmd) *)

\* C23: Get returns the configuration and no error exactly when some earlier call
\* of Initialize has returned nil, and MustGet panics exactly when none has.
C23_GetIffInitialized ==
    [][/\ ret'.op = "Get" => ((ret'.err = NoErr /\ ret'.val # "nil") <=> initOk)
       /\ ret'.op = "MustGet" => ((ret'.err # NoErr) <=> ~initOk)]_vars

----------------------------------------------------------------------------
(* Properties of the init command (SpecInitCmd) *)

\* C30: after ensureDirectories has returned nil, every configured directory (data
\* home, idea, template, periodic and zettel directory) is on disk.
C30_ConfiguredDirsExist ==
    [][(ret'.op = "ensureDirectories" /\ ret'.err = NoErr)
        => \A i \in DOMAIN ConfiguredDirs : ConfiguredDirs[i] \in dirs']_vars

----------------------------------------------------------------------------
(* Properties of two processes saving to one path (SpecSaving) *)

BothSaved == \A p \in Procs : wpc[p].pc = "done"

\* C24: when both processes have finished their Save, the file holds exactly the
\* content of one Save, never a mixture of the two contents. (The claim names
\* the Save that returned last; which of the two it is, is left open here.)
C24_LastSaveWins ==
    BothSaved => \E p \in Procs : wfile = ContentOf(p, wpc[p].len)

----------------------------------------------------------------------------
(* Properties of the installation of the default templates (SpecInstall) *)

Index(seq, x) == IF \E i \in DOMAIN seq : seq[i] = x
                 THEN CHOOSE i \in DOMAIN seq : seq[i] = x
                 ELSE 0

\* The call wrote the default content over a file that was there.
Overwrote(r, f, p) == FileExists(f, p) /\ Index(r.ops, "write " \o p) > 0

\* A step of InstallDefaultTemplates: every step but the clock's leaves what it
\* returned in ret.
InstallDefaultTemplatesReturns == ret'.op = "InstallDefaultTemplates" /\ now' = now

\* C25: when InstallDefaultTemplates overwrites a file that exists, the file's
\* previous content is in a backup file next to it, made before the write; and
\* when the backup fails the file keeps its content.
C25_BackupBeforeOverwrite ==
    [][InstallDefaultTemplatesReturns =>
        \A file \in DefaultFileSet :
            LET p == TemplatePath(file)
            IN  /\ Overwrote(ret', files, p) =>
                    /\ \E b \in Backups(files', p) : files'[b] = files[p]
                    /\ Index(ret'.ops, "backup " \o p) > 0
                    /\ Index(ret'.ops, "backup " \o p) < Index(ret'.ops, "write " \o p)
                /\ (FileExists(files, p) /\ ret'.err = "failed to create backup for " \o p) =>
                    (FileExists(files', p) /\ files'[p] = files[p])]_vars

C25_Witness ==
    /\ ret.op = "InstallDefaultTemplates"
    /\ ret.err = NoErr
    /\ Index(ret.ops, "backup " \o TemplatePath("day.md")) > 0
    /\ Index(ret.ops, "write " \o TemplatePath("day.md")) > 0
    /\ files[TemplatePath("day.md")] = DefaultContent("day.md")
    /\ files[TemplatePath("day.md") \o BackupExtension] = CustomContent

\* C26: every successful CreateBackup of a path makes a backup file of its own:
\* the backups made before stay as they are, and there is one more of them.
C26_BackupsAccumulate ==
    [][\A file \in DefaultFileSet :
        (CreateBackupCall(file, "none") /\ ret'.err = NoErr) =>
            LET p == TemplatePath(file)
            IN  /\ \A b \in Backups(files, p) : b \in DOMAIN files' /\ files'[b] = files[b]
                /\ Cardinality(Backups(files', p)) = Cardinality(Backups(files, p)) + 1]_vars

\* C27: when the user answers the action prompt with "Skip all", the installation
\* asks about no single file and leaves every template file that exists as it is.
C27_SkipAllSkips ==
    [][\/ ret'.op # "InstallDefaultWithOptions"
       \/ \A target \in InstallTargets, force \in BOOLEAN,
             answers \in [DefaultFileSet -> {"y", "n"}], fault \in InstallFaults :
            (InstallDefaultWithOptionsCall(target, force, "s", answers, fault)
             /\ Index(ret'.ops, "prompt action") > 0) =>
                \A file \in DefaultFileSet :
                    /\ Index(ret'.ops, "prompt " \o file) = 0
                    /\ FileExists(files, TemplatePath(file)) =>
                        (FileExists(files', TemplatePath(file))
                         /\ files'[TemplatePath(file)] = files[TemplatePath(file)])]_vars

----------------------------------------------------------------------------
(* Properties of ProcessTemplate (SpecRender, SpecTmpl) *)

\* C28: ProcessTemplate returns "template not found" whenever the template
\* directory holds no file for the name it is given, also when an earlier call
\* has rendered a file of that name that has been removed since.
C28_NoFileNotFound ==
    [][\A name \in RenderNames \ {""}, fault \in LoadFaults, ex \in ExecuteOutcomes :
        (ProcessTemplateCall(name, fault, ex) /\ ~FileExists(files, TemplateFile(name)))
            => ret'.err = "template not found"]_vars

\* The render goroutine of call c is in ProcessTemplate with a name that passes
\* the validation, before the last of its accesses to tm.templates (the write of
\* parseTemplate, the read of the lookup), none of which takes a lock.
InTemplates(c) == rpc[c] \in {"load", "execute"} /\ tname[c] # ""

\* C29: no two render goroutines are at tm.templates at the same time.
C29_OneRenderAtTemplates ==
    \A c1, c2 \in Calls : (InTemplates(c1) /\ InTemplates(c2)) => c1 = c2

====
